---------------------------- MODULE Spec2Model ----------------------------
(***************************************************************************)
(* Areal apportionment in DESVAB: the overlap-matrix builders of           *)
(* modulos/geo.py, the postal-code apportionment of                        *)
(* AreaEnergia._get_consumos_electricos (modulos/energia.py and            *)
(* modulos/modulo_energia.py) and the quadrant apportionment with its      *)
(* three correction passes, cargar_datos in AreaMovilidad.__init__         *)
(* (modulos/movilidad.py).                                                 *)
(*                                                                         *)
(* Numbers.  A float is modelled by an exact rational [n, d] in lowest     *)
(* terms with d > 0, extended by the three non-finite IEEE values, which   *)
(* are written with d = 0: [0,0] is NaN, [1,0] is +inf, [-1,0] is -inf.    *)
(* Rounding is not modelled: "within floating tolerance" in the            *)
(* specification reads as equality of rationals here.                      *)
(*                                                                         *)
(* Geometry.  A polygon is a closed interval [lo, hi] of an integer line   *)
(* (a rectangle of fixed height seen along one axis).  lo = hi is a        *)
(* degenerate polygon of area 0.  shapely's predicates keep their meaning: *)
(* two polygons that only share a boundary point intersect, with an        *)
(* intersection of area 0.                                                 *)
(***************************************************************************)
EXTENDS Integers, Sequences, FiniteSets, TLC

(***************************************************************************)
(* Bounds of the model.                                                    *)
(***************************************************************************)
\* largest coordinate of the polygons handed to the matrix builders
GridGeo == 2
\* largest coordinate of the quadrant and barrio polygons of AreaMovilidad
GridMov == 4
\* largest raw value of a cell of a quantity table
MaxQ == 2
\* largest number of calls of cargar_datos that follow the first one
MaxRepeticiones == 1

(***************************************************************************)
(* Extended rational arithmetic (Python / numpy float64).                  *)
(***************************************************************************)
Abs(a) == IF a < 0 THEN 0 - a ELSE a

Sgn(a) == IF a < 0 THEN 0 - 1 ELSE IF a > 0 THEN 1 ELSE 0

Max2(a, b) == IF a < b THEN b ELSE a

Min2(a, b) == IF a < b THEN a ELSE b

RECURSIVE Gcd(_, _)
Gcd(a, b) == IF b = 0 THEN a ELSE Gcd(b, a % b)

\* the rational n/d, d # 0, in lowest terms with a positive denominator
Rat(n, d) ==
    LET g == Gcd(Abs(n), Abs(d))
        s == Sgn(d)
    IN  [n |-> (s * n) \div g, d |-> Abs(d) \div g]

Int2Num(k) == [n |-> k, d |-> 1]

NaN == [n |-> 0, d |-> 0]

Inf(s) == [n |-> s, d |-> 0]

Zero == Int2Num(0)

One == Int2Num(1)

IsNaN(x) == x.d = 0 /\ x.n = 0

IsFinite(x) == x.d > 0

IsInf(x) == x.d = 0 /\ x.n # 0

\* x + y
Add(x, y) ==
    IF IsNaN(x) \/ IsNaN(y) THEN NaN
    ELSE IF IsInf(x) /\ IsInf(y) THEN (IF x.n = y.n THEN x ELSE NaN)
    ELSE IF IsInf(x) THEN x
    ELSE IF IsInf(y) THEN y
    ELSE LET g == Gcd(x.d, y.d)
             l == (x.d \div g) * y.d
         IN  Rat(x.n * (l \div x.d) + y.n * (l \div y.d), l)

Neg(x) == [n |-> 0 - x.n, d |-> x.d]

Sub(x, y) == Add(x, Neg(y))

\* x * y
Mul(x, y) ==
    IF IsNaN(x) \/ IsNaN(y) THEN NaN
    ELSE IF IsInf(x) \/ IsInf(y)
         THEN (IF x.n = 0 \/ y.n = 0 THEN NaN ELSE Inf(Sgn(x.n) * Sgn(y.n)))
    ELSE LET g1 == Gcd(Abs(x.n), y.d)
             g2 == Gcd(Abs(y.n), x.d)
         IN  Rat((x.n \div g1) * (y.n \div g2), (x.d \div g2) * (y.d \div g1))

\* x / y for a finite divisor other than 0
Quot(x, y) == Mul(x, [n |-> Sgn(y.n) * y.d, d |-> Abs(y.n)])

\* x / y as numpy's float64 divides: a zero divisor gives inf or NaN
DivNp(x, y) ==
    IF IsNaN(x) \/ IsNaN(y) THEN NaN
    ELSE IF IsInf(y) THEN (IF IsInf(x) THEN NaN ELSE Zero)
    ELSE IF y.n = 0 THEN (IF x.n = 0 THEN NaN ELSE Inf(Sgn(x.n)))
    ELSE Quot(x, y)

\* x < y; every comparison with NaN is false
Lt(x, y) ==
    IF IsNaN(x) \/ IsNaN(y) THEN FALSE
    ELSE IF IsInf(x) THEN x.n < 0 /\ ~(IsInf(y) /\ y.n < 0)
    ELSE IF IsInf(y) THEN y.n > 0
    ELSE LET g == Gcd(x.d, y.d)
             l == (x.d \div g) * y.d
         IN  x.n * (l \div x.d) < y.n * (l \div y.d)

\* x == y as floats compare: NaN equals nothing
NumEq(x, y) == ~IsNaN(x) /\ ~IsNaN(y) /\ x = y

Le(x, y) == Lt(x, y) \/ NumEq(x, y)

\* truth value of a float: only 0 is false, NaN is true
Truthy(x) == ~NumEq(x, Zero)

\* pandas' sum of a Series (skipna): NaN entries are left out
SkipNa(x) == IF IsNaN(x) THEN Zero ELSE x

(***************************************************************************)
(* Geometry (shapely on intervals).                                        *)
(***************************************************************************)
Geoms(G) == {g \in [lo : 0..G, hi : 0..G] : g.lo <= g.hi}

area(g) == g.hi - g.lo

intersects(g, h) == Max2(g.lo, h.lo) <= Min2(g.hi, h.hi)

\* intersection(g, h).area
intersection_area(g, h) == Max2(0, Min2(g.hi, h.hi) - Max2(g.lo, h.lo))

\* twice the centroid, to stay in the integers
centroid2(g) == g.lo + g.hi

\* twice the distance from polygon g to the point c2 / 2
distance2(g, c2) == Max2(0, Max2(2 * g.lo - c2, c2 - 2 * g.hi))


(***************************************************************************)
(* State.                                                                  *)
(***************************************************************************)
VARIABLES
    pc,                  \* where the program is
    error,               \* the exception that ended the run, "none" otherwise
    poligonos_src,       \* rows (id, geometry) of the source zones, as loaded
    poligonos_barrios,   \* rows (id, geometry) of the target zones, as loaded
    builder,             \* the builder that made matriz_overlap
    matriz_overlap,      \* (source id, target id) -> weight
    consumos_cp,         \* energy: the consumption table read from the CSV
    consumos_electricos, \* energy: barrio -> column -> value
    sheet,               \* mobility: the sheet parsed by the current call
    gdf_cuad,            \* mobility: quadrant -> column -> value, after the join
    gdf_barrios,         \* mobility: barrio -> column -> value, the accumulator
    hist,                \* mobility: gdf_barrios as each stage of the call left it
    result,              \* mobility: what cargar_datos returned
    llamadas,            \* mobility: the sheet and the result of each earlier call
    consumos_gas,        \* energy: barrio -> column -> value
    potencial_pv,        \* energy: barrio -> use -> photovoltaic potential
    potencial_ahorro_gas,            \* energy: barrio -> saving
    potencial_ahorro_electricidad,   \* energy: barrio -> saving
    vector_e1,           \* energy: (autoconsumo, escenario) -> barrio -> footprint
    vector_e2,           \* energy: (electrificacion, escenario) -> barrio -> footprint
    vector_e3,           \* energy: (reduccion, escenario) -> barrio -> footprint
    vector_v3,           \* energy: (mejora, escenario) -> barrio -> footprint
    historial,           \* energy: the getter calls made so far, in order
    huella               \* energy: what the last getter call returned

vars == <<pc, error, poligonos_src, poligonos_barrios, builder, matriz_overlap,
          consumos_cp, consumos_electricos, sheet, gdf_cuad, gdf_barrios,
          hist, result, llamadas, consumos_gas, potencial_pv, potencial_ahorro_gas,
          potencial_ahorro_electricidad, vector_e1, vector_e2, vector_e3, vector_v3,
          historial, huella>>

geo_vars == <<poligonos_src, poligonos_barrios>>

energia_vars == <<consumos_cp, consumos_electricos>>

mov_vars == <<sheet, gdf_cuad, gdf_barrios, hist, result, llamadas>>

caso_base_vars == <<consumos_gas, potencial_pv, potencial_ahorro_gas,
                    potencial_ahorro_electricidad>>

vector_vars == <<vector_e1, vector_e2, vector_e3, vector_v3, historial, huella>>

\* the value of a variable that holds nothing yet
None == "None"

(***************************************************************************)
(* Overlap matrix builders (modulos/geo.py).                               *)
(***************************************************************************)
\* index.unique() of a GeoDataFrame
Ids(rows) == {rows[i].id : i \in DOMAIN rows}

RECURSIVE SumAreas(_, _, _)
SumAreas(rows, c, k) ==
    IF k = 0 THEN 0
    ELSE SumAreas(rows, c, k - 1) + (IF rows[k].id = c THEN area(rows[k].geometry) ELSE 0)

\* faulty variant: every id gets the area of the last row
get_areas_cp_last(rows) == [c \in Ids(rows) |-> area(rows[Len(rows)].geometry)]

\* groupby(id)['geometry'].apply(lambda x: x.area.sum()).to_dict()
get_areas_cp(rows) == [c \in Ids(rows) |-> SumAreas(rows, c, Len(rows))]

get_areas_censales(rows) == [c \in Ids(rows) |-> SumAreas(rows, c, Len(rows))]

\* the last row loaded under id c
LastRow(rows, c) ==
    CHOOSE i \in DOMAIN rows :
        rows[i].id = c /\ \A j \in DOMAIN rows : rows[j].id = c => j <= i

\* faulty variant: the area is looked up by position, not by id
get_areas_cuadrantes_first(rows) == [c \in Ids(rows) |-> area(rows[1].geometry)]

\* gdf['geometry'].area.to_dict(): a later row replaces an earlier one of the same id
get_areas_cuadrantes(rows) == [c \in Ids(rows) |-> area(rows[LastRow(rows, c)].geometry)]

\* pd.DataFrame(0, index = source ids, columns = target ids)
MatrizCero(src, tgt) == [p \in Ids(src) \X Ids(tgt) |-> Zero]

\* the k-th pair of the nested loops "for source row: for target row"
PairSrc(tgt, k) == ((k - 1) \div Len(tgt)) + 1

PairTgt(tgt, k) == ((k - 1) % Len(tgt)) + 1

\* intersection_area / areas[id] divides two Python floats: a zero area raises
\* ZeroDivisionError.  That happens for an intersecting pair whose source area is 0.
ZeroDivision(src, tgt, areas) ==
    \E i \in DOMAIN src, j \in DOMAIN tgt :
        /\ intersects(src[i].geometry, tgt[j].geometry)
        /\ areas[src[i].id] = 0

RECURSIVE matriz_cp_loop(_, _, _, _, _)
matriz_cp_loop(src, tgt, areas, porcentaje, k) ==
    IF k = 0 THEN MatrizCero(src, tgt)
    ELSE LET M == matriz_cp_loop(src, tgt, areas, porcentaje, k - 1)
             s == src[PairSrc(tgt, k)]
             t == tgt[PairTgt(tgt, k)]
             intersection == Int2Num(intersection_area(s.geometry, t.geometry))
         IN  IF intersects(s.geometry, t.geometry)
             THEN IF porcentaje
                  THEN [M EXCEPT ![<<s.id, t.id>>] =
                            Add(@, Quot(intersection, Int2Num(areas[s.id])))]
                  ELSE [M EXCEPT ![<<s.id, t.id>>] = Add(@, intersection)]
             ELSE M

get_matriz_cp(src, tgt, porcentaje) ==
    matriz_cp_loop(src, tgt, get_areas_cp(src), porcentaje, Len(src) * Len(tgt))

RECURSIVE matriz_cuadrantes_loop(_, _, _, _)
matriz_cuadrantes_loop(src, tgt, areas, k) ==
    IF k = 0 THEN MatrizCero(src, tgt)
    ELSE LET M == matriz_cuadrantes_loop(src, tgt, areas, k - 1)
             s == src[PairSrc(tgt, k)]
             t == tgt[PairTgt(tgt, k)]
             intersection == Int2Num(intersection_area(s.geometry, t.geometry))
         IN  IF intersects(s.geometry, t.geometry)
             THEN [M EXCEPT ![<<s.id, t.id>>] = Quot(intersection, Int2Num(areas[s.id]))]
             ELSE M

get_matriz_cuadrantes(src, tgt) ==
    matriz_cuadrantes_loop(src, tgt, get_areas_cuadrantes(src), Len(src) * Len(tgt))

get_matriz_overlap_censales(src, tgt) ==
    matriz_cuadrantes_loop(src, tgt, get_areas_censales(src), Len(src) * Len(tgt))

\* matriz_overlap.loc[s].sum(): the row sum, NaN entries skipped
RECURSIVE SumSet(_, _)
SumSet(f, S) ==
    IF S = {} THEN Zero
    ELSE LET x == CHOOSE y \in S : TRUE
         IN  Add(f[x], SumSet(f, S \ {x}))

RowSum(M, s) ==
    LET T == {p[2] : p \in DOMAIN M}
    IN  SumSet([t \in T |-> SkipNa(M[<<s, t>>])], T)

(***************************************************************************)
(* The builders as a program: polygons are loaded, one builder runs.       *)
(***************************************************************************)
SrcIds == {"c1", "c2"}

BarrioIds == {"b1", "b2"}

\* the ids of the model, in the order sort_index() puts them
SortedIds == <<"17.5", "b1", "b2", "c1", "c2">>

Rank(id) == CHOOSE k \in DOMAIN SortedIds : SortedIds[k] = id

\* rows as the loaders leave them: sorted by id (sort_index)
RowsOf(ids, G) ==
    {r \in UNION {[1..n -> [id : ids, geometry : Geoms(G)]] : n \in 1..2} :
        \A i \in DOMAIN r : \A j \in DOMAIN r : i < j => Rank(r[i].id) <= Rank(r[j].id)}

\* no scenario vector has been computed
SinVectores ==
    /\ consumos_gas = None
    /\ potencial_pv = None
    /\ potencial_ahorro_gas = None
    /\ potencial_ahorro_electricidad = None
    /\ vector_e1 = None
    /\ vector_e2 = None
    /\ vector_e3 = None
    /\ vector_v3 = None
    /\ historial = <<>>
    /\ huella = None

Idle ==
    /\ SinVectores
    /\ error = "none"
    /\ builder = None
    /\ matriz_overlap = None
    /\ consumos_cp = None
    /\ consumos_electricos = None
    /\ sheet = None
    /\ gdf_cuad = None
    /\ gdf_barrios = None
    /\ hist = None
    /\ result = None
    /\ llamadas = <<>>

InitGeo ==
    /\ pc = "geo"
    /\ poligonos_src \in RowsOf(SrcIds, GridGeo)
    /\ poligonos_barrios \in RowsOf(BarrioIds, GridGeo)
    /\ Idle

Built(b, M) ==
    /\ pc' = "built"
    /\ builder' = b
    /\ matriz_overlap' = M
    /\ UNCHANGED <<error, geo_vars, caso_base_vars, vector_vars, energia_vars, mov_vars>>

Raise(e) ==
    /\ pc' = "error"
    /\ error' = e
    /\ UNCHANGED <<builder, matriz_overlap, geo_vars, caso_base_vars, vector_vars, energia_vars, mov_vars>>

GetMatrizCp ==
    /\ pc = "geo"
    /\ \E porcentaje \in BOOLEAN :
        IF porcentaje /\ ZeroDivision(poligonos_src, poligonos_barrios,
                                      get_areas_cp(poligonos_src))
        THEN Raise("ZeroDivisionError")
        ELSE Built(IF porcentaje THEN "cp" ELSE "cp_area",
                   get_matriz_cp(poligonos_src, poligonos_barrios, porcentaje))

GetMatrizCuadrantes ==
    /\ pc = "geo"
    /\ IF ZeroDivision(poligonos_src, poligonos_barrios,
                       get_areas_cuadrantes(poligonos_src))
       THEN Raise("ZeroDivisionError")
       ELSE Built("cuadrantes", get_matriz_cuadrantes(poligonos_src, poligonos_barrios))

GetMatrizOverlapCensales ==
    /\ pc = "geo"
    /\ IF ZeroDivision(poligonos_src, poligonos_barrios,
                       get_areas_censales(poligonos_src))
       THEN Raise("ZeroDivisionError")
       ELSE Built("censales", get_matriz_overlap_censales(poligonos_src, poligonos_barrios))

NextGeo == GetMatrizCp \/ GetMatrizCuadrantes \/ GetMatrizOverlapCensales

SpecGeo == InitGeo /\ [][NextGeo]_vars


(***************************************************************************)
(* Claims about the builders (checked under SpecGeo).                      *)
(***************************************************************************)
UniqueIds(rows) == \A i \in DOMAIN rows : \A j \in DOMAIN rows : rows[i].id = rows[j].id => i = j

\* the builders that store a fraction of the source area
Porcentaje == {"cp", "cuadrantes", "censales"}

BuiltPorcentaje == pc = "built" /\ builder \in Porcentaje

\* no two target polygons share more than a boundary
BarriosDisjoint ==
    \A i \in DOMAIN poligonos_barrios : \A j \in DOMAIN poligonos_barrios :
        i # j => intersection_area(poligonos_barrios[i].geometry,
                                   poligonos_barrios[j].geometry) = 0

\* C2: with unique ids, the entry (S,T) of a matrix built by get_matriz_cp
\* (porcentaje), get_matriz_cuadrantes or get_matriz_overlap_censales is
\* intersectionArea(S,T) / area(S) when S and T intersect (S of non-zero area, for
\* the quotient to exist) and 0 when they do not.
C2_EntryIsAreaFraction ==
    (BuiltPorcentaje /\ UniqueIds(poligonos_src) /\ UniqueIds(poligonos_barrios)) =>
        \A i \in DOMAIN poligonos_src : \A j \in DOMAIN poligonos_barrios :
            LET s == poligonos_src[i]
                t == poligonos_barrios[j]
                w == matriz_overlap[<<s.id, t.id>>]
            IN  /\ ~intersects(s.geometry, t.geometry) => w = Zero
                /\ (intersects(s.geometry, t.geometry) /\ s.geometry.hi > s.geometry.lo) =>
                       /\ IsFinite(w)
                       /\ w.n * (s.geometry.hi - s.geometry.lo) =
                              w.d * intersection_area(s.geometry, t.geometry)

\* C2 witness: a matrix was built from unique ids with a partial overlap (a weight
\* strictly between 0 and 1) and a pair that does not intersect
C2_Witness ==
    /\ BuiltPorcentaje /\ UniqueIds(poligonos_src) /\ UniqueIds(poligonos_barrios)
    /\ \E p \in DOMAIN matriz_overlap :
           Lt(Zero, matriz_overlap[p]) /\ Lt(matriz_overlap[p], One)
    /\ \E i \in DOMAIN poligonos_src : \E j \in DOMAIN poligonos_barrios :
           ~intersects(poligonos_src[i].geometry, poligonos_barrios[j].geometry)

RowSumInUnit(s) ==
    LET r == RowSum(matriz_overlap, s)
    IN  Le(Zero, r) /\ Le(r, One)

\* C3 as stated: whatever polygons the builder is given, every row sum of the
\* matrix it built is in [0, 1]
C3_Original_RowSumAnyPolygons ==
    (BuiltPorcentaje /\ UniqueIds(poligonos_src) /\ UniqueIds(poligonos_barrios)) =>
        \A s \in Ids(poligonos_src) : RowSumInUnit(s)

\* C3 amended: when the source ids are unique and no two target polygons overlap,
\* every row sum of the matrix as built is in [0, 1]
C3_RowSumDisjointTargets ==
    (BuiltPorcentaje /\ UniqueIds(poligonos_src) /\ BarriosDisjoint) =>
        \A s \in Ids(poligonos_src) : RowSumInUnit(s)

\* C3 witness: two disjoint targets and a source that has a positive weight in
\* each of them, with a row sum of exactly 1
C3_Witness ==
    /\ BuiltPorcentaje /\ UniqueIds(poligonos_src) /\ BarriosDisjoint
    /\ Len(poligonos_barrios) = 2
    /\ \E s \in Ids(poligonos_src) :
           /\ \A t \in Ids(poligonos_barrios) : Lt(Zero, matriz_overlap[<<s, t>>])
           /\ NumEq(RowSum(matriz_overlap, s), One)

\* C9: a source polygon of area 0 gets weight 0 for every target and the builder
\* finishes normally
C9_ZeroAreaSourceIsZeroWeight ==
    (pc \in {"built", "error"} /\ builder # "cp_area" /\ UniqueIds(poligonos_src)) =>
        \A i \in DOMAIN poligonos_src :
            area(poligonos_src[i].geometry) = 0 =>
                /\ pc = "built"
                /\ \A t \in Ids(poligonos_barrios) :
                       matriz_overlap[<<poligonos_src[i].id, t>>] = Zero


(***************************************************************************)
(* AreaEnergia._get_consumos_electricos (modulos/energia.py).              *)
(***************************************************************************)
\* the columns read from the CSV, and the table's columns once 'Total' is added
SectorCols == {"Residencial", "Comercial", "Industrial"}

ConsumoCols == SectorCols \cup {"Total"}

\* .fillna(0).astype(float), then consumos_cp['Total'] = consumos_cp.sum(axis=1)
LimpiarConsumos(csv) ==
    [cp \in DOMAIN csv |->
        LET fila == [c \in SectorCols |-> SkipNa(csv[cp][c])]
        IN  [c \in ConsumoCols |->
                IF c = "Total"
                THEN Add(Add(fila["Residencial"], fila["Comercial"]), fila["Industrial"])
                ELSE fila[c]]]

\* the ids of rows in the order of their first row: index.unique()
RECURSIVE UniqueIndex(_, _)
UniqueIndex(rows, k) ==
    IF k = 0 THEN <<>>
    ELSE LET u == UniqueIndex(rows, k - 1)
         IN  IF \E i \in DOMAIN u : u[i] = rows[k].id THEN u ELSE Append(u, rows[k].id)

\* for cp in cps.index: consumos_barrio.loc[barrio] += matriz_cp.loc[cp, barrio] * consumos_cp.loc[cp]
\* with cps = matriz_cp.loc[:, barrio] filtered by cps > 0
RECURSIVE consumos_barrio_loop(_, _, _, _, _)
consumos_barrio_loop(M, tabla, index, barrio, k) ==
    IF k = 0 THEN [c \in ConsumoCols |-> Zero]
    ELSE LET acc == consumos_barrio_loop(M, tabla, index, barrio, k - 1)
             cp  == index[k]
         IN  IF Lt(Zero, M[<<cp, barrio>>])
             THEN [c \in ConsumoCols |-> Add(acc[c], Mul(M[<<cp, barrio>>], tabla[cp][c]))]
             ELSE acc

\* faulty variant: the weights of each postal code are divided by their row sum, so
\* the part of a postal code outside every barrio is shared among its barrios
get_consumos_electricos_corregido(M, tabla, index, barrios) ==
    LET N == [p \in DOMAIN M |->
                 IF Lt(Zero, RowSum(M, p[1])) THEN Quot(M[p], RowSum(M, p[1])) ELSE M[p]]
    IN  [b \in barrios |-> consumos_barrio_loop(N, tabla, index, b, Len(index))]

\* faulty variant: the loop over the postal codes stops one short
get_consumos_electricos_short(M, tabla, index, barrios) ==
    [b \in barrios |-> consumos_barrio_loop(M, tabla, index, b, Len(index) - 1)]

get_consumos_electricos(M, tabla, index, barrios) ==
    [b \in barrios |-> consumos_barrio_loop(M, tabla, index, b, Len(index))]

\* consumos_cp.loc[cp] of a cp the table does not have raises KeyError
ConsumosKeyError(M, tabla) ==
    \E p \in DOMAIN M : Lt(Zero, M[p]) /\ p[1] \notin DOMAIN tabla

\* the cells of one row of the CSV; '-' is read as NaN
CsvRows ==
    [Residencial : {Int2Num(q) : q \in 0..MaxQ} \cup {NaN},
     Comercial   : {One},
     Industrial  : {Zero, NaN}]

\* the postal codes of the CSV: get_poligonos_cp keeps the polygons of these only,
\* so every polygon id has a row; "c3" is a postal code that has no polygon
InitEnergia ==
    /\ pc = "energia"
    /\ poligonos_src \in RowsOf(SrcIds, GridGeo)
    /\ poligonos_barrios \in
           {r \in RowsOf(BarrioIds, GridGeo) :
               /\ UniqueIds(r)
               /\ \A i \in DOMAIN r : area(r[i].geometry) > 0
               /\ \A i \in DOMAIN r : \A j \in DOMAIN r :
                      i < j => r[i].geometry.hi <= r[j].geometry.lo}
    /\ \E cps \in {SrcIds, SrcIds \cup {"c3"}} :
           consumos_cp \in
               {t \in [cps -> CsvRows] :
                   /\ t["c2"].Residencial \in {One, NaN}
                   /\ t["c2"].Industrial = NaN <=> t["c2"].Residencial = One
                   /\ "c3" \in cps => t["c3"] = [Residencial |-> One, Comercial |-> One,
                                                 Industrial |-> Zero]}
    /\ error = "none"
    /\ builder = None
    /\ matriz_overlap = None
    /\ consumos_electricos = None
    /\ sheet = None
    /\ gdf_cuad = None
    /\ gdf_barrios = None
    /\ hist = None
    /\ result = None
    /\ llamadas = <<>>
    /\ SinVectores

GetConsumosElectricos ==
    /\ pc = "energia"
    /\ IF ZeroDivision(poligonos_src, poligonos_barrios, get_areas_cp(poligonos_src))
       THEN Raise("ZeroDivisionError")
       ELSE LET M == get_matriz_cp(poligonos_src, poligonos_barrios, TRUE)
                tabla == LimpiarConsumos(consumos_cp)
            IN  IF ConsumosKeyError(M, tabla)
                THEN Raise("KeyError")
                ELSE /\ pc' = "consumos"
                     /\ builder' = "cp"
                     /\ matriz_overlap' = M
                     /\ consumos_electricos' =
                            get_consumos_electricos(M, tabla,
                                UniqueIndex(poligonos_src, Len(poligonos_src)),
                                Ids(poligonos_barrios))
                     /\ UNCHANGED <<error, geo_vars, caso_base_vars, vector_vars, consumos_cp, mov_vars>>

NextEnergia == GetConsumosElectricos

SpecEnergia == InitEnergia /\ [][NextEnergia]_vars

\* the sum over every source id s of M[s, b] * tabla[s][c]
WeightedSum(M, tabla, b, c) ==
    LET S == {p[1] : p \in DOMAIN M}
    IN  SumSet([cp \in S |-> Mul(M[<<cp, b>>], tabla[cp][c])], S)

\* C1: consumos_electricos[b][c] is the sum over all postal codes cp of
\* matriz_cp[cp][b] * consumos_cp[cp][c], for every barrio b and every column c
\* (Residencial, Comercial, Industrial, Total), with nothing added or scaled
C1_PlainWeightedSum ==
    pc = "consumos" =>
        \A b \in Ids(poligonos_barrios) : \A c \in ConsumoCols :
            consumos_electricos[b][c] =
                WeightedSum(matriz_overlap, LimpiarConsumos(consumos_cp), b, c)

\* C1 witness: a barrio received consumption from two postal codes, each with a
\* weight strictly between 0 and 1
C1_Witness ==
    /\ pc = "consumos"
    /\ \E b \in Ids(poligonos_barrios) :
           /\ \A cp \in SrcIds :
                  /\ cp \in Ids(poligonos_src)
                  /\ Lt(Zero, matriz_overlap[<<cp, b>>])
                  /\ Lt(matriz_overlap[<<cp, b>>], One)
                  /\ Lt(Zero, LimpiarConsumos(consumos_cp)[cp]["Total"])
           /\ Lt(Zero, consumos_electricos[b]["Residencial"])


(***************************************************************************)
(* AreaMovilidad.__init__ and its cargar_datos (modulos/movilidad.py).     *)
(***************************************************************************)
Cols == {"CO2_real_kg", "FE"}

\* 10**6: grams to tonnes, kWh to MWh
Millon == 1000000

Half == Rat(1, 2)

\* the zone id that pass 2 never fills
Excluido == "17.5"

\* column-wise arithmetic on a row of the quantity columns
RowZero == [c \in Cols |-> Zero]

RowNaN == [c \in Cols |-> NaN]

\* faulty variant: the row is subtracted
RowResta(r, q) == [c \in Cols |-> Sub(r[c], q[c])]

RowAdd(r, q) == [c \in Cols |-> Add(r[c], q[c])]

RowMul(r, x) == [c \in Cols |-> Mul(r[c], x)]

\* excel.parse(...) followed by the unit conversions and FE = publico + privado
df_cuad(hoja) ==
    [q \in DOMAIN hoja |->
        [c \in Cols |->
            IF c = "CO2_real_kg"
            THEN DivNp(hoja[q].CO2_real_kg, Int2Num(Millon))
            ELSE DivNp(Add(hoja[q].publico_kWh, hoja[q].privado_kWh), Int2Num(Millon))]]

\* gdf_cuad.join(df_cuad): a left join on the quadrant id, NaN where the sheet has no row
join_cuad(cuads, df) == [q \in Ids(cuads) |-> IF q \in DOMAIN df THEN df[q] ELSE RowNaN]

\* pd.DataFrame(0, index = matriz_overlap.columns, ...) joined to gdf_barrios
df_barrios(barrios) == [b \in Ids(barrios) |-> RowZero]

GeomOf(rows, id) == rows[LastRow(rows, id)].geometry

\* lines 110-114: for barrio: for cuad: if matriz_overlap.loc[cuad, barrio]: +=
RECURSIVE base_loop(_, _, _, _, _)
base_loop(M, cuads, barrios, gc, k) ==
    IF k = 0 THEN df_barrios(barrios)
    ELSE LET acc    == base_loop(M, cuads, barrios, gc, k - 1)
             barrio == barrios[((k - 1) \div Len(cuads)) + 1].id
             cuad   == cuads[((k - 1) % Len(cuads)) + 1].id
             overlap_area == M[<<cuad, barrio>>]
         IN  IF Truthy(overlap_area)
             THEN [acc EXCEPT ![barrio] = RowAdd(@, RowMul(gc[cuad], overlap_area))]
             ELSE acc

\* faulty variant: the loops stop one pair short
asignar_solapamiento_short(M, cuads, barrios, gc) ==
    base_loop(M, cuads, barrios, gc, Len(barrios) * Len(cuads) - 1)

asignar_solapamiento(M, cuads, barrios, gc) ==
    base_loop(M, cuads, barrios, gc, Len(barrios) * Len(cuads))

\* gdf_cuad.intersects(geometry).any()
any_intersects(rows, g) == \E i \in DOMAIN rows : intersects(rows[i].geometry, g)

\* rows[rows.intersects(g)].intersection(g).area.sum()
RECURSIVE overlap_area_sum(_, _, _)
overlap_area_sum(rows, g, k) ==
    IF k = 0 THEN 0
    ELSE overlap_area_sum(rows, g, k - 1) +
         (IF intersects(rows[k].geometry, g)
          THEN intersection_area(rows[k].geometry, g) ELSE 0)

\* faulty variant: the barrios that intersect no quadrant are scaled too
ajustar_parciales_todos(acc, cuads, barrios) ==
    [b \in DOMAIN acc |->
        LET g == GeomOf(barrios, b)
            neighborhood_area == area(g)
            overlap_area == overlap_area_sum(cuads, g, Len(cuads))
        IN  IF overlap_area < neighborhood_area
            THEN RowMul(acc[b], DivNp(Int2Num(neighborhood_area), Int2Num(overlap_area)))
            ELSE acc[b]]

\* faulty variant: the covered area leaves out the last quadrant
ajustar_parciales_short(acc, cuads, barrios) ==
    [b \in DOMAIN acc |->
        LET g == GeomOf(barrios, b)
            neighborhood_area == area(g)
            overlap_area == overlap_area_sum(cuads, g, Len(cuads) - 1)
        IN  IF ~any_intersects(cuads, g) THEN acc[b]
            ELSE IF overlap_area < neighborhood_area
                 THEN RowMul(acc[b], DivNp(Int2Num(neighborhood_area), Int2Num(overlap_area)))
                 ELSE acc[b]]

\* lines 116-124, pass 1: scale the barrios that the quadrants cover only in part
ajustar_parciales(acc, cuads, barrios) ==
    [b \in DOMAIN acc |->
        LET g == GeomOf(barrios, b)
            neighborhood_area == area(g)
            overlap_area == overlap_area_sum(cuads, g, Len(cuads))
        IN  IF ~any_intersects(cuads, g) THEN acc[b]
            ELSE IF overlap_area < neighborhood_area
                 THEN RowMul(acc[b], DivNp(Int2Num(neighborhood_area), Int2Num(overlap_area)))
                 ELSE acc[b]]

\* Series.idxmin(): the first label of the index with the least value
RECURSIVE idxmin(_, _, _)
idxmin(index, d, k) ==
    IF k = 1 THEN index[1]
    ELSE LET m == idxmin(index, d, k - 1)
         IN  IF d[index[k]] < d[m] THEN index[k] ELSE m

\* the rows of a frame that satisfy a filter, in index order
RECURSIVE filter_index(_, _, _)
filter_index(rows, keep, k) ==
    IF k = 0 THEN <<>>
    ELSE IF rows[k].id \in keep
         THEN Append(filter_index(rows, keep, k - 1), rows[k].id)
         ELSE filter_index(rows, keep, k - 1)

\* frame.distance(point).idxmin() over the rows whose id is in keep
nearest(rows, keep, c2) ==
    LET index == filter_index(rows, keep, Len(rows))
    IN  idxmin(index, [b \in keep |-> distance2(GeomOf(rows, b), c2)], Len(index))

\* faulty variant: the selection keeps every barrio
neighborhoods_sin_filtro(acc) == DOMAIN acc

\* gdf_barrios[gdf_barrios['CO2_real_kg'] > 0]
neighborhoods_with_data(acc) == {b \in DOMAIN acc : Lt(Zero, acc[b]["CO2_real_kg"])}

\* faulty variant: the excluded id is filled like any other
sin_solapamiento_todos(cuads, barrios, b) == ~any_intersects(cuads, GeomOf(barrios, b))

\* a barrio that pass 2 fills: not the excluded id, intersecting no quadrant
sin_solapamiento(cuads, barrios, b) ==
    b # Excluido /\ ~any_intersects(cuads, GeomOf(barrios, b))

\* idxmin() of an empty Series raises ValueError
Pass2Raises(acc, cuads, barrios) ==
    /\ neighborhoods_with_data(acc) = {}
    /\ \E b \in DOMAIN acc : sin_solapamiento(cuads, barrios, b)

\* faulty variant: the barrios with data are selected again for every barrio, so a
\* barrio that was just filled can be the neighbour of the next one
RECURSIVE asignar_sin_solapamiento_vivo(_, _, _, _, _)
asignar_sin_solapamiento_vivo(acc0, with_data, cuads, barrios, k) ==
    IF k = 0 THEN acc0
    ELSE LET acc == asignar_sin_solapamiento_vivo(acc0, with_data, cuads, barrios, k - 1)
             b   == barrios[k].id
         IN  IF sin_solapamiento(cuads, barrios, b)
             THEN LET nearest_neighborhood ==
                          nearest(barrios, neighborhoods_with_data(acc),
                                  centroid2(barrios[k].geometry))
                  IN  [acc EXCEPT ![b] = RowMul(acc[nearest_neighborhood], Half)]
             ELSE acc

\* faulty variant: a barrio without quadrants takes the whole value of its
\* nearest neighbour with data
RECURSIVE asignar_sin_solapamiento_entero(_, _, _, _, _)
asignar_sin_solapamiento_entero(acc0, with_data, cuads, barrios, k) ==
    IF k = 0 THEN acc0
    ELSE LET acc == asignar_sin_solapamiento_entero(acc0, with_data, cuads, barrios, k - 1)
             b   == barrios[k].id
         IN  IF sin_solapamiento(cuads, barrios, b)
             THEN LET nearest_neighborhood ==
                          nearest(barrios, with_data, centroid2(barrios[k].geometry))
                  IN  [acc EXCEPT ![b] = acc[nearest_neighborhood]]
             ELSE acc

\* lines 126-133, pass 2: a barrio without quadrants takes half of its nearest
\* neighbour with data; with_data is the selection made before the loop
RECURSIVE asignar_sin_solapamiento(_, _, _, _, _)
asignar_sin_solapamiento(acc0, with_data, cuads, barrios, k) ==
    IF k = 0 THEN acc0
    ELSE LET acc == asignar_sin_solapamiento(acc0, with_data, cuads, barrios, k - 1)
             b   == barrios[k].id
         IN  IF sin_solapamiento(cuads, barrios, b)
             THEN LET nearest_neighborhood ==
                          nearest(barrios, with_data, centroid2(barrios[k].geometry))
                  IN  [acc EXCEPT ![b] = RowMul(acc[nearest_neighborhood], Half)]
             ELSE acc

\* math.isclose(x, 1, abs_tol=1e-5); the relative tolerance 1e-9 * max(|x|, 1) is
\* below abs_tol for every |x| < 10**4
isclose1(x) ==
    LET diff == Sub(x, One)
        dist == IF Lt(diff, Zero) THEN Neg(diff) ELSE diff
    IN  Le(dist, Rat(1, 100000))

\* the ids of the barrios that intersect g, in index order
overlapping_neighborhoods(barrios, g) ==
    filter_index(barrios, {b \in Ids(barrios) : intersects(GeomOf(barrios, b), g)},
                 Len(barrios))

\* lines 153-160: the leftover of a quadrant split over the barrios it intersects
RECURSIVE distribuir(_, _, _, _, _, _, _)
distribuir(acc0, fila, g, barrios, over, leftover, k) ==
    IF k = 0 THEN acc0
    ELSE LET acc == distribuir(acc0, fila, g, barrios, over, leftover, k - 1)
             total_overlap_area ==
                 overlap_area_sum(barrios, g, Len(barrios))
             overlap_area == intersection_area(GeomOf(barrios, over[k]), g)
             proportion == DivNp(Int2Num(overlap_area), Int2Num(total_overlap_area))
         IN  [acc EXCEPT ![over[k]] =
                  RowAdd(@, RowMul(RowMul(fila, proportion), leftover))]

\* lines 135-160, pass 3: the part of each quadrant that no barrio received
RECURSIVE distribuir_sobrantes(_, _, _, _, _, _)
distribuir_sobrantes(acc0, M, gc, cuads, barrios, k) ==
    IF k = 0 THEN acc0
    ELSE LET acc  == distribuir_sobrantes(acc0, M, gc, cuads, barrios, k - 1)
             cuad == cuads[k].id
             fila == gc[cuad]
             g    == cuads[k].geometry
             over == overlapping_neighborhoods(barrios, g)
         IN  IF NumEq(fila["CO2_real_kg"], Zero) \/ isclose1(RowSum(M, cuad)) THEN acc
             ELSE IF Len(over) = 0
                  THEN LET nearest_neighborhood ==
                               nearest(barrios, Ids(barrios), centroid2(g))
                       IN  [acc EXCEPT ![nearest_neighborhood] = RowAdd(@, fila)]
             ELSE IF Len(over) = 1
                  THEN LET factor == Sub(One, M[<<cuad, over[1]>>])
                       IN  [acc EXCEPT ![over[1]] = RowAdd(@, RowMul(fila, factor))]
             ELSE distribuir(acc, fila, g, barrios, over, Sub(One, RowSum(M, cuad)),
                             Len(over))

\* faulty variant: barrios without any quantity are dropped from the result
agrupar_con_datos(acc) ==
    [b \in {x \in DOMAIN acc : \E c \in Cols : SkipNa(acc[x][c]) # Zero}
        |-> [c \in Cols |-> SkipNa(acc[b][c])]]

\* lines 162-164: column.groupby(index).sum(); the sum skips NaN
agrupar(acc) == [b \in DOMAIN acc |-> [c \in Cols |-> SkipNa(acc[b][c])]]


\* lines 93-124 of cargar_datos: the accumulator once pass 1 has run
cargar_datos_pass1(M, cuads, barrios, hoja) ==
    LET gc   == join_cuad(cuads, df_cuad(hoja))
        base == asignar_solapamiento(M, cuads, barrios, gc)
    IN  ajustar_parciales(base, cuads, barrios)

\* lines 126-164 of cargar_datos: passes 2 and 3 and the grouped sums, from the
\* accumulator p1 that pass 1 left, when pass 2 does not raise
cargar_datos_resto(p1, M, cuads, barrios, hoja) ==
    LET gc == join_cuad(cuads, df_cuad(hoja))
        p2 == asignar_sin_solapamiento(p1, neighborhoods_with_data(p1), cuads, barrios,
                                       Len(barrios))
    IN  agrupar(distribuir_sobrantes(p2, M, gc, cuads, barrios, Len(cuads)))

\* lines 88-164: cargar_datos as a whole.  It raises when pass 2 finds no donor,
\* and returns the grouped sums otherwise.
cargar_datos_raises(M, cuads, barrios, hoja) ==
    Pass2Raises(cargar_datos_pass1(M, cuads, barrios, hoja), cuads, barrios)

cargar_datos(M, cuads, barrios, hoja) ==
    cargar_datos_resto(cargar_datos_pass1(M, cuads, barrios, hoja), M, cuads, barrios,
                       hoja)


(***************************************************************************)
(* AreaMovilidad.__init__ as a program: the polygons are loaded, the       *)
(* matrix is built, cargar_datos parses a sheet and runs its passes.       *)
(***************************************************************************)
\* the quadrants c1, c2 in file order; quadrants do not overlap each other
CuadLayoutsEn(G) ==
    {<<[id |-> "c1", geometry |-> g1], [id |-> "c2", geometry |-> g2]>> :
        <<g1, g2>> \in {p \in Geoms(G) \X Geoms(G) : p[1].hi <= p[2].lo}}

CuadLayouts == CuadLayoutsEn(GridMov)

\* three polygons with an area, side by side from left to right
ParcelasEn(G) ==
    {q \in Geoms(G) \X Geoms(G) \X Geoms(G) :
        /\ \A i \in 1..3 : area(q[i]) > 0
        /\ q[1].hi <= q[2].lo
        /\ q[2].hi <= q[3].lo}

Parcelas == ParcelasEn(GridMov)

\* the barrios in index order (sort_index); barrios do not overlap each other, b1
\* lies left of b2 and "17.5", when the city has it, lies anywhere among them
BarrioLayoutsEn(G) ==
    UNION {{<<[id |-> "17.5", geometry |-> p[1]], [id |-> "b1", geometry |-> p[2]],
              [id |-> "b2", geometry |-> p[3]]>>,
            <<[id |-> "17.5", geometry |-> p[2]], [id |-> "b1", geometry |-> p[1]],
              [id |-> "b2", geometry |-> p[3]]>>,
            <<[id |-> "17.5", geometry |-> p[3]], [id |-> "b1", geometry |-> p[1]],
              [id |-> "b2", geometry |-> p[2]]>>} : p \in ParcelasEn(G)}
    \cup {<<[id |-> "b1", geometry |-> g1], [id |-> "b2", geometry |-> g2]>> :
              <<g1, g2>> \in {p \in Geoms(G) \X Geoms(G) :
                                 /\ area(p[1]) > 0 /\ area(p[2]) > 0
                                 /\ p[1].hi <= p[2].lo}}

BarrioLayouts == BarrioLayoutsEn(GridMov)

\* rows of a sheet: raw cells, NaN for an empty cell
FilaC1 ==
    [CO2_real_kg : {Int2Num(q) : q \in 0..MaxQ} \cup {NaN},
     publico_kWh : {Zero, One},
     privado_kWh : {Zero}]

FilaCO2 == [CO2_real_kg |-> One, publico_kWh |-> Zero, privado_kWh |-> One]

FilaSoloFE == [CO2_real_kg |-> Zero, publico_kWh |-> Zero, privado_kWh |-> One]

\* the sheets: c1 has a row; c2 has a row or none; "c3" is a quadrant id of the
\* sheet that the quadrant geometry does not have
Hojas ==
    UNION {{("c1" :> f1) @@ ("c2" :> FilaCO2),
            ("c1" :> f1) @@ ("c2" :> FilaSoloFE),
            ("c1" :> f1),
            ("c1" :> f1) @@ ("c2" :> FilaCO2) @@ ("c3" :> FilaCO2)} : f1 \in FilaC1}

\* a sheet that any later call may read
HojaFija ==
    ("c1" :> [CO2_real_kg |-> One, publico_kWh |-> One, privado_kWh |-> Zero])
        @@ ("c2" :> FilaCO2)

\* the sheets a call may read: any sheet for the first call, the first call's sheet
\* again or HojaFija for a later one
HojasDe(ll) == IF ll = <<>> THEN Hojas ELSE {ll[1].sheet, HojaFija}

HistVacio == [base |-> None, p1 |-> None, p2 |-> None, p3 |-> None]

InitMov ==
    /\ pc = "mov"
    /\ poligonos_src \in CuadLayouts
    /\ poligonos_barrios \in BarrioLayouts
    /\ Idle

\* line 84: matriz_overlap = get_matriz_cuadrantes()
MovGetMatriz ==
    /\ pc = "mov"
    /\ IF ZeroDivision(poligonos_src, poligonos_barrios,
                       get_areas_cuadrantes(poligonos_src))
       THEN Raise("ZeroDivisionError")
       ELSE /\ pc' = "ready"
            /\ builder' = "cuadrantes"
            /\ matriz_overlap' = get_matriz_cuadrantes(poligonos_src, poligonos_barrios)
            /\ UNCHANGED <<error, geo_vars, caso_base_vars, vector_vars, energia_vars, mov_vars>>

\* lines 93-114: parse the sheet, join, and the weighted sum over the matrix
CargarDatos ==
    /\ pc = "ready"
    /\ \E hoja \in HojasDe(llamadas) :
        LET gc  == join_cuad(poligonos_src, df_cuad(hoja))
            acc == asignar_solapamiento(matriz_overlap, poligonos_src, poligonos_barrios, gc)
        IN  /\ sheet' = hoja
            /\ gdf_cuad' = gc
            /\ gdf_barrios' = acc
            /\ hist' = [HistVacio EXCEPT !.base = acc]
    /\ pc' = "pass1"
    /\ UNCHANGED <<error, geo_vars, caso_base_vars, vector_vars, builder, matriz_overlap, energia_vars, llamadas,
                   result>>

\* faulty variant: pass 1 also scales the weights of the matrix in place
Pass1EnMatriz ==
    /\ pc = "pass1"
    /\ LET acc == ajustar_parciales(gdf_barrios, poligonos_src, poligonos_barrios)
       IN  gdf_barrios' = acc /\ hist' = [hist EXCEPT !.p1 = acc]
    /\ matriz_overlap' =
           [p \in DOMAIN matriz_overlap |->
               LET g == GeomOf(poligonos_barrios, p[2])
                   overlap_area == overlap_area_sum(poligonos_src, g, Len(poligonos_src))
               IN  IF any_intersects(poligonos_src, g) /\ overlap_area < area(g)
                   THEN Mul(matriz_overlap[p], DivNp(Int2Num(area(g)), Int2Num(overlap_area)))
                   ELSE matriz_overlap[p]]
    /\ pc' = "pass2"
    /\ UNCHANGED <<error, geo_vars, caso_base_vars, vector_vars, builder, energia_vars, llamadas, sheet,
                   gdf_cuad, result>>

\* lines 116-124
Pass1 ==
    /\ pc = "pass1"
    /\ LET acc == ajustar_parciales(gdf_barrios, poligonos_src, poligonos_barrios)
       IN  gdf_barrios' = acc /\ hist' = [hist EXCEPT !.p1 = acc]
    /\ pc' = "pass2"
    /\ UNCHANGED <<error, geo_vars, caso_base_vars, vector_vars, builder, matriz_overlap, energia_vars, llamadas, sheet,
                   gdf_cuad, result>>

\* lines 126-133
Pass2 ==
    /\ pc = "pass2"
    /\ IF Pass2Raises(gdf_barrios, poligonos_src, poligonos_barrios)
       THEN Raise("ValueError")
       ELSE /\ LET acc == asignar_sin_solapamiento(gdf_barrios,
                              neighborhoods_with_data(gdf_barrios),
                              poligonos_src, poligonos_barrios, Len(poligonos_barrios))
               IN  gdf_barrios' = acc /\ hist' = [hist EXCEPT !.p2 = acc]
            /\ pc' = "pass3"
            /\ UNCHANGED <<error, geo_vars, caso_base_vars, vector_vars, builder, matriz_overlap, energia_vars, llamadas,
                           sheet, gdf_cuad, result>>

\* lines 135-160
Pass3 ==
    /\ pc = "pass3"
    /\ LET acc == distribuir_sobrantes(gdf_barrios, matriz_overlap, gdf_cuad,
                                       poligonos_src, poligonos_barrios,
                                       Len(poligonos_src))
       IN  gdf_barrios' = acc /\ hist' = [hist EXCEPT !.p3 = acc]
    /\ pc' = "return"
    /\ UNCHANGED <<error, geo_vars, caso_base_vars, vector_vars, builder, matriz_overlap, energia_vars, llamadas, sheet,
                   gdf_cuad, result>>

\* faulty variant: every call returns the same object, so the results the caller
\* kept change with it
ReturnAlias ==
    /\ pc = "return"
    /\ result' = agrupar(gdf_barrios)
    /\ llamadas' = [i \in DOMAIN llamadas |->
                       [llamadas[i] EXCEPT !.result = agrupar(gdf_barrios)]]
    /\ pc' = "returned"
    /\ UNCHANGED <<error, geo_vars, caso_base_vars, vector_vars, builder, matriz_overlap, energia_vars, sheet,
                   gdf_cuad, gdf_barrios, hist>>

\* lines 162-164
Return ==
    /\ pc = "return"
    /\ result' = agrupar(gdf_barrios)
    /\ pc' = "returned"
    /\ UNCHANGED <<error, geo_vars, caso_base_vars, vector_vars, builder, matriz_overlap, energia_vars, llamadas, sheet,
                   gdf_cuad, gdf_barrios, hist>>

\* lines 167, 176-180: the caller keeps the result and calls cargar_datos again;
\* the locals of the call that returned are gone
OtraLlamada ==
    /\ pc = "returned"
    /\ Len(llamadas) < MaxRepeticiones
    /\ llamadas' = Append(llamadas, [sheet |-> sheet, result |-> result])
    /\ pc' = "ready"
    /\ sheet' = None
    /\ gdf_cuad' = None
    /\ gdf_barrios' = None
    /\ hist' = None
    /\ result' = None
    /\ UNCHANGED <<error, geo_vars, caso_base_vars, vector_vars, builder, matriz_overlap, energia_vars>>

Next == MovGetMatriz \/ CargarDatos \/ Pass1 \/ Pass2 \/ Pass3 \/ Return

Init == InitMov

Spec == Init /\ [][Next]_vars

\* AreaMovilidad.__init__ with its later calls of cargar_datos, on a smaller map
GridLlam == GridMov - 1

InitLlamadas ==
    /\ pc = "mov"
    /\ poligonos_src \in CuadLayoutsEn(GridLlam)
    /\ poligonos_barrios \in BarrioLayoutsEn(GridLlam)
    /\ Idle

NextLlamadas == Next \/ OtraLlamada

SpecLlamadas == InitLlamadas /\ [][NextLlamadas]_vars

\* both apportionments: the calls of cargar_datos and _get_consumos_electricos
InitAmbos == InitLlamadas \/ InitEnergia

NextAmbos == NextLlamadas \/ NextEnergia

SpecAmbos == InitAmbos /\ [][NextAmbos]_vars

\* lines 88-164 as one step: cargar_datos applied to a sheet, returning its grouped
\* sums or raising the ValueError of pass 2
LlamarCargarDatos ==
    /\ pc = "ready"
    /\ \E hoja \in Hojas :
           /\ sheet' = hoja
           /\ IF cargar_datos_raises(matriz_overlap, poligonos_src, poligonos_barrios, hoja)
              THEN pc' = "error" /\ error' = "ValueError" /\ UNCHANGED result
              ELSE /\ pc' = "returned"
                   /\ result' = cargar_datos(matriz_overlap, poligonos_src,
                                             poligonos_barrios, hoja)
                   /\ UNCHANGED error
    /\ UNCHANGED <<geo_vars, caso_base_vars, vector_vars, builder, matriz_overlap,
                   energia_vars, llamadas, gdf_cuad, gdf_barrios, hist>>

NextFuncion == MovGetMatriz \/ LlamarCargarDatos

\* cargar_datos as a function of the geometry and the sheet
SpecFuncion == InitMov /\ [][NextFuncion]_vars

\* one call of either aggregation, cargar_datos on the larger map
InitResultados == InitMov \/ InitEnergia

NextResultados == Next \/ NextEnergia

SpecResultados == InitResultados /\ [][NextResultados]_vars


(***************************************************************************)
(* Claims about cargar_datos (checked under Spec).                         *)
(***************************************************************************)
Cuads == Ids(poligonos_src)

Barrios == Ids(poligonos_barrios)

Returned == pc = "returned"

\* every quadrant of the geometry has a number in every column
CantidadesPresentes == \A q \in Cuads : \A c \in Cols : IsFinite(gdf_cuad[q][c])

\* the sum of column c of the values returned, over the barrios
TotalOut(c) == SumSet([b \in Barrios |-> result[b][c]], Barrios)

\* the sum of column c of the input quantities, over the quadrants
TotalIn(c) == SumSet([q \in Cuads |-> gdf_cuad[q][c]], Cuads)

Intersecta(b) == any_intersects(poligonos_src, GeomOf(poligonos_barrios, b))

\* the part of barrio b that the quadrants cover is all of b
Cubierto(b) ==
    overlap_area_sum(poligonos_src, GeomOf(poligonos_barrios, b), Len(poligonos_src))
        >= area(GeomOf(poligonos_barrios, b))

\* pass 1 scales nothing and pass 2 fills nothing
SinCorreccion ==
    /\ \A b \in Barrios : Intersecta(b) => Cubierto(b)
    /\ \A b \in Barrios : b # Excluido => Intersecta(b)

FilasCompletas == \A q \in Cuads : NumEq(RowSum(matriz_overlap, q), One)

\* C4 as stated: if every row sum is exactly 1, the returned values of each column
\* add up to the input quantities of that column
C4_Original_Conservation ==
    (Returned /\ CantidadesPresentes /\ FilasCompletas) =>
        \A c \in Cols : TotalOut(c) = TotalIn(c)

\* C4 amended: if every row sum is exactly 1, every barrio that intersects a
\* quadrant is fully covered by the quadrants, and every barrio other than "17.5"
\* intersects a quadrant, the returned values of each column add up to the input
\* quantities of that column
C4_ConservationFullCoverage ==
    (Returned /\ CantidadesPresentes /\ FilasCompletas /\ SinCorreccion) =>
        \A c \in Cols : TotalOut(c) = TotalIn(c)

\* C4 witness: such a run in which a quadrant with emissions is split over two
\* barrios
C4_Witness ==
    /\ Returned /\ CantidadesPresentes /\ FilasCompletas /\ SinCorreccion
    /\ \E q \in Cuads :
           /\ Lt(Zero, gdf_cuad[q]["CO2_real_kg"])
           /\ \E b1 \in Barrios : \E b2 \in Barrios :
                  /\ b1 # b2
                  /\ Lt(Zero, matriz_overlap[<<q, b1>>])
                  /\ Lt(Zero, matriz_overlap[<<q, b2>>])

\* C5: when some quadrant has a row sum below 1, the returned values of each column
\* still add up to the input quantities of that column.  Stated for the runs in
\* which pass 1 scales nothing and pass 2 fills nothing, so that the residual of
\* pass 3 is all that is at stake.
C5_ResidualConservation ==
    (/\ Returned /\ CantidadesPresentes /\ SinCorreccion
     /\ \E q \in Cuads : Lt(RowSum(matriz_overlap, q), One)) =>
        \A c \in Cols : TotalOut(c) = TotalIn(c)


\* the stages of a call that have run, read off the program position
AfterBase ==
    pc \in {"pass1", "pass2", "pass3", "return", "returned"} \/
    (pc = "error" /\ error = "ValueError")

AfterPass2 == pc \in {"pass3", "return", "returned"}

AfterPass3 == pc \in {"return", "returned"}

\* pass 2 was attempted: it ran to its end or it raised
Pass2Intentado == AfterPass2 \/ (pc = "error" /\ error = "ValueError")

SinSolapamiento(b) == sin_solapamiento(poligonos_src, poligonos_barrios, b)

\* twice the distance from barrio d to the centroid of barrio t
Dist2(d, t) ==
    distance2(GeomOf(poligonos_barrios, d), centroid2(GeomOf(poligonos_barrios, t)))

\* the barrio of D nearest to barrio t, the first in index order among equals
Cercano(D, t) ==
    CHOOSE d \in D :
        \A e \in D : Dist2(d, t) < Dist2(e, t) \/
                     (Dist2(d, t) = Dist2(e, t) /\ Rank(d) <= Rank(e))

\* the barrios that hold a non-zero quantity in some column
ConCantidad(acc) == {b \in DOMAIN acc : \E c \in Cols : acc[b][c] # Zero}

\* every accumulated value is a finite number
Finitas(acc) == \A b \in DOMAIN acc : \A c \in Cols : IsFinite(acc[b][c])

\* C6: pass 2 gives every barrio other than "17.5" that intersects no quadrant half
\* of the value, in every column, of the nearest barrio among those with a non-zero
\* accumulated quantity, and leaves every barrio that intersects a quadrant as it was
C6_FallbackFromNearestWithData ==
    (AfterPass2 /\ Finitas(hist.p1)) =>
        \A t \in Barrios :
            /\ SinSolapamiento(t) =>
                   /\ ConCantidad(hist.p1) # {}
                   /\ hist.p2[t] = RowMul(hist.p1[Cercano(ConCantidad(hist.p1), t)], Half)
            /\ Intersecta(t) => hist.p2[t] = hist.p1[t]

\* some barrio other than "17.5" intersects no quadrant
NecesitaDonante == \E b \in Barrios : SinSolapamiento(b)

\* no barrio holds data: every value is 0 or missing
SinDatos(acc) == \A b \in DOMAIN acc : \A c \in Cols : acc[b][c] \in {Zero, NaN}

\* C7: when pass 2 has to look for a donor and no barrio has non-zero data,
\* cargar_datos ends with an error and returns nothing
C7_EmptyCoverageIsFatal ==
    (Pass2Intentado /\ NecesitaDonante /\ SinDatos(hist.p1)) =>
        (pc = "error" /\ error = "ValueError" /\ result = None)

\* C7 witness: pass 2 raised on a sheet without data
C7_Witness ==
    /\ pc = "error" /\ error = "ValueError"
    /\ NecesitaDonante /\ SinDatos(hist.p1)

\* no cell of the sheet is empty
CeldasPresentes == \A q \in DOMAIN sheet : \A k \in DOMAIN sheet[q] : ~IsNaN(sheet[q][k])

\* C8: a quadrant id that only the sheet or only the geometry has contributes zero:
\* the weighted sum of each barrio is the sum over the ids that both have
C8_MismatchContributesZero ==
    (AfterBase /\ CeldasPresentes) =>
        \A b \in Barrios : \A c \in Cols :
            LET comunes == Cuads \cap DOMAIN sheet
            IN  hist.base[b][c] =
                    SumSet([q \in comunes |->
                               Mul(matriz_overlap[<<q, b>>], df_cuad(sheet)[q][c])], comunes)

\* gdf_cuad with 0 in the place of every missing value
SinNaN(gc) == [q \in DOMAIN gc |-> [c \in Cols |-> SkipNa(gc[q][c])]]

\* C10: a missing (NaN) quantity counts as zero in the weighted sum and in pass 3,
\* and no returned value is NaN
C10_MissingCountsAsZero ==
    /\ AfterBase =>
           hist.base = asignar_solapamiento(matriz_overlap, poligonos_src,
                                            poligonos_barrios, SinNaN(gdf_cuad))
    /\ AfterPass3 =>
           hist.p3 = distribuir_sobrantes(hist.p2, matriz_overlap, SinNaN(gdf_cuad),
                                          poligonos_src, poligonos_barrios,
                                          Len(poligonos_src))
    /\ Returned => \A b \in Barrios : \A c \in Cols : ~IsNaN(result[b][c])


\* quadrant q intersects no barrio
CuadAislado(q) ==
    \A b \in Barrios : ~intersects(GeomOf(poligonos_barrios, b), GeomOf(poligonos_src, q))

\* twice the distance from barrio b to the centroid of quadrant q
DistCuad2(b, q) ==
    distance2(GeomOf(poligonos_barrios, b), centroid2(GeomOf(poligonos_src, q)))

\* the barrio nearest to the centroid of quadrant q, the first in index order
\* among equals
CercanoCuad(q) ==
    CHOOSE d \in Barrios :
        \A e \in Barrios : DistCuad2(d, q) < DistCuad2(e, q) \/
                           (DistCuad2(d, q) = DistCuad2(e, q) /\ Rank(d) <= Rank(e))

\* what pass 3 leaves when quadrant q has nothing to give
Pass3Sin(q) ==
    distribuir_sobrantes(hist.p2, matriz_overlap, [gdf_cuad EXCEPT ![q] = RowZero],
                         poligonos_src, poligonos_barrios, Len(poligonos_src))

\* C11: a quadrant with a non-zero quantity that intersects no barrio has its full
\* quantity added in pass 3 to the barrio nearest to its centroid, and to no other
C11_IsolatedSourceToNearest ==
    (AfterPass3 /\ CantidadesPresentes) =>
        \A q \in Cuads :
            (CuadAislado(q) /\ gdf_cuad[q] # RowZero) =>
                \A b \in Barrios :
                    hist.p3[b] = IF b = CercanoCuad(q)
                                 THEN RowAdd(Pass3Sin(q)[b], gdf_cuad[q])
                                 ELSE Pass3Sin(q)[b]


\* quadrant q contains barrio b
Contiene(q, b) ==
    /\ GeomOf(poligonos_src, q).lo <= GeomOf(poligonos_barrios, b).lo
    /\ GeomOf(poligonos_barrios, b).hi <= GeomOf(poligonos_src, q).hi

\* quadrant q contains barrio b and intersects no other barrio
SoloContiene(q, b) ==
    /\ Contiene(q, b)
    /\ \A e \in Barrios \ {b} :
           ~intersects(GeomOf(poligonos_src, q), GeomOf(poligonos_barrios, e))

\* every quadrant contains one barrio and intersects no other, and two quadrants
\* never contain the same barrio
UnoAUno ==
    /\ \A q \in Cuads : \E b \in Barrios : SoloContiene(q, b)
    /\ \A q1 \in Cuads : \A q2 \in Cuads : \A b \in Barrios :
           (SoloContiene(q1, b) /\ SoloContiene(q2, b)) => q1 = q2

\* C12: when every quadrant contains exactly one barrio, intersects no other, and
\* distinct quadrants contain distinct barrios, the barrio of each quadrant is
\* returned with the quantity of that quadrant in every column, whatever part of
\* the quadrant lies outside the barrio
C12_OneToOneTiling ==
    (Returned /\ CantidadesPresentes /\ UnoAUno) =>
        \A q \in Cuads : \A b \in Barrios :
            SoloContiene(q, b) => result[b] = gdf_cuad[q]


\* every barrio intersects a quadrant and the quadrants cover all of it
TodoCubierto == \A b \in Barrios : Intersecta(b) /\ Cubierto(b)

\* the plain weighted sum of column c for barrio b
SumaPonderada(b, c) ==
    SumSet([q \in Cuads |-> Mul(matriz_overlap[<<q, b>>], gdf_cuad[q][c])], Cuads)

\* C13: when every row sum is 1, every barrio intersects a quadrant and is fully
\* covered by the quadrants, the value returned for each barrio is the plain
\* weighted sum of the quadrants' quantities
C13_IdentityOnCompleteTiling ==
    (Returned /\ CantidadesPresentes /\ FilasCompletas /\ TodoCubierto) =>
        \A b \in Barrios : \A c \in Cols : result[b][c] = SumaPonderada(b, c)

\* C13 witness: such a run in which a quadrant with emissions is split in equal
\* parts over two barrios
C13_Witness ==
    /\ Returned /\ CantidadesPresentes /\ FilasCompletas /\ TodoCubierto
    /\ \E q \in Cuads : \E b1 \in Barrios : \E b2 \in Barrios :
           /\ b1 # b2
           /\ Lt(Zero, gdf_cuad[q]["CO2_real_kg"])
           /\ matriz_overlap[<<q, b1>>] = Half
           /\ matriz_overlap[<<q, b2>>] = Half
           /\ result[b1] = RowMul(gdf_cuad[q], Half)
           /\ result[b2] = RowMul(gdf_cuad[q], Half)


(***************************************************************************)
(* Claims about repeated calls of cargar_datos (checked under              *)
(* SpecLlamadas).                                                          *)
(***************************************************************************)
\* C14: a call of cargar_datos returns what every earlier call on the same sheet
\* returned
C14_Idempotent ==
    Returned =>
        \A i \in DOMAIN llamadas :
            llamadas[i].sheet = sheet => llamadas[i].result = result

\* C14 witness: a second call on the sheet of the first has returned, and the
\* result holds emissions
C14_Witness ==
    /\ Returned
    /\ llamadas # <<>>
    /\ llamadas[1].sheet = sheet
    /\ llamadas[1].result = result
    /\ \E b \in Barrios : Lt(Zero, result[b]["CO2_real_kg"])


\* cargar_datos is running
EnLlamada == pc \in {"ready", "pass1", "pass2", "pass3", "return"}

C17_ExcludedZoneNoFallback ==
    (AfterPass2 /\ Excluido \in Barrios /\ ~Intersecta(Excluido)) =>
        \A c \in Cols : hist.p2[Excluido][c] = Zero

\* C17 witness: pass 2 has run, "17.5" intersects no quadrant and holds 0 in every
\* column, while a barrio with emissions, the donor a fallback would use, exists
C17_Witness ==
    /\ AfterPass2 /\ Excluido \in Barrios /\ ~Intersecta(Excluido)
    /\ \A c \in Cols : hist.p2[Excluido][c] = Zero
    /\ neighborhoods_with_data(hist.p1) # {}

AfterPass1 ==
    pc \in {"pass2", "pass3", "return", "returned"} \/
    (pc = "error" /\ error = "ValueError")

\* the sum, over the quadrants at the positions S, of the area each shares with
\* barrio b
RECURSIVE AreaCompartida(_, _)
AreaCompartida(S, b) ==
    IF S = {} THEN 0
    ELSE LET i == CHOOSE x \in S : TRUE
         IN  intersection_area(poligonos_src[i].geometry, GeomOf(poligonos_barrios, b)) +
             AreaCompartida(S \ {i}, b)

CoveredArea(b) == AreaCompartida(DOMAIN poligonos_src, b)

AreaDe(b) == area(GeomOf(poligonos_barrios, b))

\* C20: pass 1 multiplies the value of every barrio that intersects a quadrant and
\* whose covered area is below its own area by the number area / coveredArea, in
\* every column, leaves every other barrio unchanged, and never scales down
C20_Pass1Scaling ==
    AfterPass1 =>
        \A b \in Barrios :
            IF Intersecta(b) /\ CoveredArea(b) < AreaDe(b)
            THEN /\ CoveredArea(b) > 0
                 /\ \A c \in Cols :
                        /\ hist.p1[b][c] =
                               Mul(hist.base[b][c], Rat(AreaDe(b), CoveredArea(b)))
                        /\ (IsFinite(hist.base[b][c]) /\ Le(Zero, hist.base[b][c])) =>
                               Le(hist.base[b][c], hist.p1[b][c])
            ELSE hist.p1[b] = hist.base[b]

(***************************************************************************)
(* Claims about cargar_datos as a function of the sheet (checked under     *)
(* SpecFuncion).                                                           *)
(***************************************************************************)
\* every quadrant of the geometry has a row in sheet h and every cell of h is a
\* non-negative number
HojaCompleta(h) ==
    /\ Cuads \subseteq DOMAIN h
    /\ \A q \in DOMAIN h : \A k \in DOMAIN h[q] : IsFinite(h[q][k]) /\ Le(Zero, h[q][k])

\* the values that the cells of the sheets take
ValoresDeHoja == UNION {UNION {{h[q][k] : k \in DOMAIN h[q]} : q \in DOMAIN h} : h \in Hojas}

\* sheet h1 with the cell k of quadrant q raised to v
Aumentada(h1, q, k, v) == [h1 EXCEPT ![q][k] = v]

\* sheet h2 is sheet h1 with the cell k of quadrant q raised
Aumenta(h1, h2, q, k) ==
    /\ q \in DOMAIN h1
    /\ Lt(h1[q][k], h2[q][k])
    /\ h2 = Aumentada(h1, q, k, h2[q][k])

\* C16: with the geometry and every other quantity fixed and non-negative, raising
\* one quantity of one quadrant never lowers the value returned, in any column,
\* for a barrio in which that quadrant has a positive weight
C16_Monotone ==
    (Returned /\ HojaCompleta(sheet)) =>
        \A q \in Cuads : \A k \in DOMAIN sheet[q] : \A v \in ValoresDeHoja :
            (/\ Lt(sheet[q][k], v)
             /\ Aumentada(sheet, q, k, v) \in Hojas
             /\ HojaCompleta(Aumentada(sheet, q, k, v))) =>
                \A p1 \in {cargar_datos_pass1(matriz_overlap, poligonos_src,
                                              poligonos_barrios,
                                              Aumentada(sheet, q, k, v))} :
                    ~Pass2Raises(p1, poligonos_src, poligonos_barrios) =>
                        \A mayor \in {cargar_datos_resto(p1, matriz_overlap, poligonos_src,
                                                         poligonos_barrios,
                                                         Aumentada(sheet, q, k, v))} :
                            \A b \in Barrios : \A c \in Cols :
                                Lt(Zero, matriz_overlap[<<q, b>>]) =>
                                    Le(result[b][c], mayor[b][c])

\* C16 witness: the sheet returned from has a quadrant without emissions, and the
\* same sheet with emissions for that quadrant returns more for a barrio of that
\* quadrant
C16_Witness ==
    /\ Returned /\ HojaCompleta(sheet)
    /\ \E h \in Hojas : \E q \in Cuads : \E b \in Barrios :
           /\ HojaCompleta(h)
           /\ Aumenta(sheet, h, q, "CO2_real_kg")
           /\ sheet[q]["CO2_real_kg"] = Zero
           /\ ~cargar_datos_raises(matriz_overlap, poligonos_src, poligonos_barrios, h)
           /\ Lt(Zero, matriz_overlap[<<q, b>>])
           /\ Lt(result[b]["CO2_real_kg"],
                 cargar_datos(matriz_overlap, poligonos_src, poligonos_barrios,
                              h)[b]["CO2_real_kg"])


(***************************************************************************)
(* Claims about both aggregations (checked under SpecResultados).          *)
(***************************************************************************)
\* the column labels of an overlap matrix: its target zone ids
Columnas(M) == {p[2] : p \in DOMAIN M}

\* C18: the result of cargar_datos and the result of _get_consumos_electricos have
\* one entry, with a value in every column, for each target zone id of the overlap
\* matrix, the targets that intersect no source included
C18_EveryTargetHasAValue ==
    /\ Returned =>
           /\ DOMAIN result = Columnas(matriz_overlap)
           /\ \A b \in DOMAIN result : DOMAIN result[b] = Cols
    /\ pc = "consumos" =>
           /\ DOMAIN consumos_electricos = Columnas(matriz_overlap)
           /\ \A b \in DOMAIN consumos_electricos :
                  DOMAIN consumos_electricos[b] = ConsumoCols

\* C18 witness: cargar_datos has returned an entry for a barrio that intersects no
\* quadrant, next to a barrio with emissions
C18_Witness ==
    /\ Returned
    /\ DOMAIN result = Columnas(matriz_overlap)
    /\ \E b \in Barrios : ~Intersecta(b) /\ b \in DOMAIN result
    /\ \E b \in Barrios : Lt(Zero, result[b]["CO2_real_kg"])


(***************************************************************************)
(* AreaEnergia scenario getters (modulos/energia.py).                      *)
(***************************************************************************)
MaxLlamadasVector == 2

RATIOS_ELEC_GAS ==
    ("Residencial" :> Rat(70, 100)) @@ ("Comercial" :> Rat(44, 100)) @@
    ("Industrial" :> Rat(137, 100))

CALEFACCION == ("Electricidad" :> Rat(27, 100)) @@ ("Gas" :> Rat(14, 100))

FACTOR_EMISION_MIX ==
    ("Actual" :> Rat(120, 1000)) @@ ("PNIEC" :> Rat(68, 1000)) @@
    ("Borrador PNIEC" :> Rat(30, 1000))

FACTOR_EMISION_GAS == Rat(18, 100)

EFICIENCIA_ELECTRIFICACION == Rat(3, 10)

MAXIMO_E3 == Rat(16, 100)

REDUCCION_DEMANDA_REHABILITACION == Rat(51, 100)

CALEFACCION_SATISFECHA_GAS == Rat(27, 100)

CALEFACCION_SATISFECHA_ELECTRICIDAD == Rat(14, 100)

\* DataFrame.sum(axis=1) of one row over the columns cols
RECURSIVE SumaFila(_, _)
SumaFila(fila, cols) ==
    IF cols = {} THEN Zero
    ELSE LET c == CHOOSE x \in cols : TRUE
         IN  Add(SkipNa(fila[c]), SumaFila(fila, cols \ {c}))

\* lines 243-258
get_consumos_gas(electricos) ==
    [b \in DOMAIN electricos |->
        LET fila == [c \in SectorCols |-> Mul(electricos[b][c], RATIOS_ELEC_GAS[c])]
        IN  [c \in ConsumoCols |->
                IF c = "Total" THEN SumaFila(fila, SectorCols) ELSE fila[c]]]

\* lines 260-273
get_consumo_calefaccion(electricos, gas) ==
    [b \in DOMAIN electricos |->
        Add(Mul(electricos[b]["Residencial"], CALEFACCION["Electricidad"]),
            Mul(gas[b]["Residencial"], CALEFACCION["Gas"]))]

\* lines 697-700: the saving, then the part of it met by gas or by electricity
get_ahorro(calefaccion, cert_EFG, satisfecha) ==
    [b \in DOMAIN calefaccion |->
        Mul(Mul(Mul(calefaccion[b], cert_EFG[b]), REDUCCION_DEMANDA_REHABILITACION),
            satisfecha)]

\* Series.clip(lower=0) of one value
clip0(x) == IF Lt(x, Zero) THEN Zero ELSE x

\* the footprint of a pair of consumptions, lines 409-411, 459-461, 509-511, 754-756
huella_de(electricidad, gas, escenario) ==
    Add(Mul(electricidad, FACTOR_EMISION_MIX[escenario]), Mul(gas, FACTOR_EMISION_GAS))

\* lines 403-411
huella_e1(autoconsumo, escenario) ==
    [b \in DOMAIN consumos_electricos |->
        huella_de(clip0(Sub(consumos_electricos[b]["Total"],
                            Mul(SumaFila(potencial_pv[b], DOMAIN potencial_pv[b]),
                                autoconsumo))),
                  consumos_gas[b]["Total"], escenario)]

\* lines 453-461
huella_e2(electrificacion, escenario) ==
    [b \in DOMAIN consumos_electricos |->
        huella_de(Mul(consumos_electricos[b]["Total"],
                      Add(One, Mul(electrificacion, EFICIENCIA_ELECTRIFICACION))),
                  Mul(consumos_gas[b]["Total"], Sub(One, electrificacion)),
                  escenario)]

\* consumos[['Residencial', 'Comercial']].sum(axis=1) * (1 - reduccion * MAXIMO_E3)
\*     + consumos['Industrial']
reducir(fila, reduccion) ==
    Add(Mul(SumaFila(fila, {"Residencial", "Comercial"}),
            Sub(One, Mul(reduccion, MAXIMO_E3))),
        fila["Industrial"])

\* lines 503-511
huella_e3(reduccion, escenario) ==
    [b \in DOMAIN consumos_electricos |->
        huella_de(reducir(consumos_electricos[b], reduccion),
                  reducir(consumos_gas[b], reduccion), escenario)]

\* lines 750-756
huella_v3(mejora, escenario) ==
    [b \in DOMAIN consumos_electricos |->
        huella_de(Sub(consumos_electricos[b]["Total"],
                      Mul(potencial_ahorro_electricidad[b], mejora)),
                  Sub(consumos_gas[b]["Total"], Mul(potencial_ahorro_gas[b], mejora)),
                  escenario)]

\* faulty variant: the ends of the range are rejected too
argumentos_invalidos_abierto(valor, escenario) ==
    \/ Le(valor, Zero)
    \/ Le(One, valor)
    \/ escenario \notin DOMAIN FACTOR_EMISION_MIX

\* the check every getter starts with (lines 397-401, 447-451, 497-501, 743-747):
\* valor < 0 or valor > 1, or escenario not in FACTOR_EMISION_MIX.keys()
argumentos_invalidos(valor, escenario) ==
    \/ Lt(valor, Zero)
    \/ Lt(One, valor)
    \/ escenario \notin DOMAIN FACTOR_EMISION_MIX

\* vector[(valor, escenario)] = huella
guardar(vector, clave, h) ==
    [k \in DOMAIN vector \cup {clave} |-> IF k = clave THEN h ELSE vector[k]]

\* the lever values and the scenario names the getters are called with
Valores == {Rat(-1, 2), Zero, Rat(1, 2), One, Rat(3, 2)}

Escenarios == DOMAIN FACTOR_EMISION_MIX \cup {"Otro"}

\* the values the constructor was given for every lever (lines 145-181)
ValoresIniciales == {Zero}

TablasElectricas ==
    {[b1 |-> [Residencial |-> One, Comercial |-> One, Industrial |-> Zero,
              Total |-> Int2Num(2)],
      b2 |-> [Residencial |-> Zero, Comercial |-> Zero, Industrial |-> One,
              Total |-> One]],
     [b1 |-> [Residencial |-> Int2Num(2), Comercial |-> Zero, Industrial |-> One,
              Total |-> Int2Num(3)],
      b2 |-> [Residencial |-> One, Comercial |-> One, Industrial |-> One,
              Total |-> Int2Num(3)]]}

CertificadosEFG == {[b1 |-> Zero, b2 |-> Zero], [b1 |-> Rat(1, 2), b2 |-> One]}

PotencialPV ==
    [b1 |-> [Residencial |-> One, Comercial |-> One, Industrial |-> One],
     b2 |-> [Residencial |-> Rat(1, 2), Comercial |-> Zero, Industrial |-> Zero]]

\* the keys the constructor fills for every lever:
\* product(valores, FACTOR_EMISION_MIX.keys())
ClavesIniciales == ValoresIniciales \X DOMAIN FACTOR_EMISION_MIX

\* the object once __init__ has run (lines 140-190)
InitVectores ==
    /\ pc = "vectores"
    /\ error = "none"
    /\ poligonos_src = None
    /\ poligonos_barrios = None
    /\ builder = None
    /\ matriz_overlap = None
    /\ consumos_cp = None
    /\ sheet = None
    /\ gdf_cuad = None
    /\ gdf_barrios = None
    /\ hist = None
    /\ result = None
    /\ llamadas = <<>>
    /\ consumos_electricos \in TablasElectricas
    /\ consumos_gas = get_consumos_gas(consumos_electricos)
    /\ potencial_pv = PotencialPV
    /\ \E cert_EFG \in CertificadosEFG :
           LET calefaccion == get_consumo_calefaccion(consumos_electricos, consumos_gas)
           IN  /\ potencial_ahorro_gas =
                      get_ahorro(calefaccion, cert_EFG, CALEFACCION_SATISFECHA_GAS)
               /\ potencial_ahorro_electricidad =
                      get_ahorro(calefaccion, cert_EFG,
                                 CALEFACCION_SATISFECHA_ELECTRICIDAD)
    /\ vector_e1 = [k \in ClavesIniciales |-> huella_e1(k[1], k[2])]
    /\ vector_e2 = [k \in ClavesIniciales |-> huella_e2(k[1], k[2])]
    /\ vector_e3 = [k \in ClavesIniciales |-> huella_e3(k[1], k[2])]
    /\ vector_v3 = [k \in ClavesIniciales |-> huella_v3(k[1], k[2])]
    /\ historial = <<>>
    /\ huella = None

\* a getter is called: the call is logged, and nothing but its own dictionary, the
\* value returned and the exception raised can change
Llamar(metodo, valor, escenario) ==
    /\ pc = "vectores"
    /\ Len(historial) < MaxLlamadasVector
    /\ historial' = Append(historial, [metodo |-> metodo, valor |-> valor,
                                       escenario |-> escenario])
    /\ UNCHANGED <<pc, geo_vars, builder, matriz_overlap, energia_vars, mov_vars,
                   caso_base_vars>>

\* lines 397-401 and the like: raise ValueError
RaiseValueError ==
    /\ error' = "ValueError"
    /\ huella' = None

\* lines 368-415
get_vector_e1 ==
    \E autoconsumo \in Valores : \E escenario \in Escenarios :
        /\ Llamar("e1", autoconsumo, escenario)
        /\ IF argumentos_invalidos(autoconsumo, escenario)
           THEN RaiseValueError /\ UNCHANGED vector_e1
           ELSE /\ error' = "none"
                /\ huella' = huella_e1(autoconsumo, escenario)
                /\ vector_e1' = guardar(vector_e1, <<autoconsumo, escenario>>, huella')
        /\ UNCHANGED <<vector_e2, vector_e3, vector_v3>>

\* lines 421-465
get_vector_e2 ==
    \E electrificacion \in Valores : \E escenario \in Escenarios :
        /\ Llamar("e2", electrificacion, escenario)
        /\ IF argumentos_invalidos(electrificacion, escenario)
           THEN RaiseValueError /\ UNCHANGED vector_e2
           ELSE /\ error' = "none"
                /\ huella' = huella_e2(electrificacion, escenario)
                /\ vector_e2' = guardar(vector_e2, <<electrificacion, escenario>>, huella')
        /\ UNCHANGED <<vector_e1, vector_e3, vector_v3>>

\* lines 471-516
get_vector_e3 ==
    \E reduccion \in Valores : \E escenario \in Escenarios :
        /\ Llamar("e3", reduccion, escenario)
        /\ IF argumentos_invalidos(reduccion, escenario)
           THEN RaiseValueError /\ UNCHANGED vector_e3
           ELSE /\ error' = "none"
                /\ huella' = huella_e3(reduccion, escenario)
                /\ vector_e3' = guardar(vector_e3, <<reduccion, escenario>>, huella')
        /\ UNCHANGED <<vector_e1, vector_e2, vector_v3>>

\* lines 717-760
get_vector_v3 ==
    \E mejora \in Valores : \E escenario \in Escenarios :
        /\ Llamar("v3", mejora, escenario)
        /\ IF argumentos_invalidos(mejora, escenario)
           THEN RaiseValueError /\ UNCHANGED vector_v3
           ELSE /\ error' = "none"
                /\ huella' = huella_v3(mejora, escenario)
                /\ vector_v3' = guardar(vector_v3, <<mejora, escenario>>, huella')
        /\ UNCHANGED <<vector_e1, vector_e2, vector_e3>>

NextVectores == get_vector_e1 \/ get_vector_e2 \/ get_vector_e3 \/ get_vector_v3

SpecVectores == InitVectores /\ [][NextVectores]_vars

(***************************************************************************)
(* Claims about the scenario getters (checked under SpecVectores).         *)
(***************************************************************************)
Metodos == {"e1", "e2", "e3", "v3"}

\* the dictionary of the getter named m
VectorDe(m) ==
    CASE m = "e1" -> vector_e1
      [] m = "e2" -> vector_e2
      [] m = "e3" -> vector_e3
      [] m = "v3" -> vector_v3

\* the lever value lies in [0, 1] and the scenario is one of the three names
ArgumentosValidos(call) ==
    /\ ~Lt(call.valor, Zero)
    /\ ~Lt(One, call.valor)
    /\ call.escenario \in {"Actual", "PNIEC", "Borrador PNIEC"}

Ultima(h) == h[Len(h)]

\* C19: a getter called with a lever value below 0 or above 1, or with a scenario
\* other than 'Actual', 'PNIEC' and 'Borrador PNIEC', raises ValueError and
\* leaves its dictionary unchanged; called with valid arguments it stores its result
\* under the key (value, escenario), changes no other key, and returns it
C19_GettersValidate ==
    [][pc = "vectores" =>
        \A m \in Metodos :
            LET call  == Ultima(historial')
                clave == <<call.valor, call.escenario>>
            IN  call.metodo = m =>
                    IF ArgumentosValidos(call)
                    THEN /\ error' = "none"
                         /\ DOMAIN VectorDe(m)' = DOMAIN VectorDe(m) \cup {clave}
                         /\ VectorDe(m)'[clave] = huella'
                         /\ \A k \in DOMAIN VectorDe(m) \ {clave} :
                                VectorDe(m)'[k] = VectorDe(m)[k]
                    ELSE /\ error' = "ValueError"
                         /\ VectorDe(m)' = VectorDe(m)]_vars

\* C19 witness: a call with valid arguments stored a key the constructor had not
\* stored, and the next call of the same getter, with a lever value out of range,
\* raised and left the dictionary with that key
C19_Witness ==
    /\ pc = "vectores"
    /\ Len(historial) = 2
    /\ historial[1] = [metodo |-> "e1", valor |-> Rat(1, 2), escenario |-> "PNIEC"]
    /\ historial[2].metodo = "e1"
    /\ Lt(One, historial[2].valor)
    /\ error = "ValueError"
    /\ <<Rat(1, 2), "PNIEC">> \in DOMAIN vector_e1
    /\ Cardinality(DOMAIN vector_e1) = 4


(***************************************************************************)
(* Claims about pass 3 of cargar_datos (checked under Spec).               *)
(***************************************************************************)
\* the barrios that intersect quadrant q
Solapados(q) ==
    {b \in Barrios : intersects(GeomOf(poligonos_barrios, b), GeomOf(poligonos_src, q))}

\* the area that barrio b shares with quadrant q
AreaComun(q, b) ==
    intersection_area(GeomOf(poligonos_barrios, b), GeomOf(poligonos_src, q))

\* the sum of the areas that the barrios of S share with quadrant q
RECURSIVE AreaComunTotal(_, _)
AreaComunTotal(q, S) ==
    IF S = {} THEN 0
    ELSE LET b == CHOOSE x \in S : TRUE
         IN  AreaComun(q, b) + AreaComunTotal(q, S \ {b})

\* 1 - rowSum(q) in the matrix as built
Leftover(q) == Sub(One, RowSum(matriz_overlap, q))

\* the part of the leftover of quadrant q that barrio b is due, as a number
Parte(q, b) ==
    IF b \notin Solapados(q) THEN Zero
    ELSE IF Cardinality(Solapados(q)) = 1 THEN One
    ELSE Rat(AreaComun(q, b), AreaComunTotal(q, Solapados(q)))

\* C21: a quadrant with a leftover above 0 that intersects one barrio adds
\* leftover * quantity to it; one that intersects several adds to each
\* leftover * quantity * shared area / sum of the shared areas, a number, so that
\* the amounts add up to leftover * quantity
C21_Pass3Split ==
    (AfterPass3 /\ CantidadesPresentes) =>
        \A q \in Cuads :
            (Lt(Zero, Leftover(q)) /\ Solapados(q) # {}) =>
                /\ AreaComunTotal(q, Solapados(q)) > 0 \/ Cardinality(Solapados(q)) = 1
                /\ \A b \in Barrios :
                       hist.p3[b] =
                           RowAdd(Pass3Sin(q)[b],
                                  RowMul(RowMul(gdf_cuad[q], Leftover(q)), Parte(q, b)))

\* what pass 3 leaves when column c of quadrant q holds v
Pass3Con(q, c, v) ==
    distribuir_sobrantes(hist.p2, matriz_overlap, [gdf_cuad EXCEPT ![q][c] = v],
                         poligonos_src, poligonos_barrios, Len(poligonos_src))

\* C22: pass 3 works column by column: what it leaves in a column does not depend
\* on the value that a quadrant with row sum below 1 holds in the other column
C22_Pass3ColumnByColumn ==
    (AfterPass3 /\ CantidadesPresentes) =>
        \A q \in Cuads : \A c \in Cols : \A otra \in Cols \ {c} :
            Lt(RowSum(matriz_overlap, q), One) =>
                \A v \in {Zero, One} : \A b \in Barrios :
                    Pass3Con(q, otra, v)[b][c] = hist.p3[b][c]

(***************************************************************************)
(* Claims about the fallback of pass 2 in the returned result (checked     *)
(* under Spec).                                                            *)
(***************************************************************************)
\* C23 as stated: a barrio that pass 2 fills is changed by neither pass 1 nor pass 3,
\* and the value returned for it is the value that pass 2 wrote
C23_Original_FallbackUntouched ==
    (Returned /\ CantidadesPresentes /\ Finitas(hist.p2)) =>
        \A b \in Barrios :
            SinSolapamiento(b) =>
                /\ hist.p1[b] = hist.base[b]
                /\ hist.p3[b] = hist.p2[b]
                /\ result[b] = hist.p2[b]

\* C23, amended: when every quadrant intersects some barrio, a barrio that pass 2
\* fills is changed by neither pass 1 nor pass 3, and the value returned for it is
\* the value that pass 2 wrote
C23_FallbackUntouched ==
    (Returned /\ \A q \in Cuads : ~CuadAislado(q)) =>
        \A b \in Barrios :
            SinSolapamiento(b) =>
                /\ hist.p1[b] = hist.base[b]
                /\ hist.p3[b] = hist.p2[b]
                /\ result[b] = hist.p2[b]

\* C23 witness: a barrio was given a positive fallback and was returned with it,
\* every quadrant intersects some barrio, and pass 3 had a leftover to hand out
C23_Witness ==
    /\ Returned /\ CantidadesPresentes /\ Finitas(hist.p2)
    /\ \A q \in Cuads : ~CuadAislado(q)
    /\ \E b \in Barrios :
           /\ SinSolapamiento(b)
           /\ Lt(Zero, hist.p2[b]["CO2_real_kg"])
           /\ result[b] = hist.p2[b]
    /\ \E q \in Cuads :
           /\ Lt(RowSum(matriz_overlap, q), One)
           /\ Lt(Zero, gdf_cuad[q]["CO2_real_kg"])

\* the barrio that pass 2 takes the fallback of barrio t from: the nearest to the
\* centroid of t among those with emissions when pass 2 starts
Donante(t) == Cercano(neighborhoods_with_data(hist.p1), t)

\* C24 as stated: in the returned result every barrio that pass 2 filled holds half
\* of the returned value of its donor
C24_Original_HalfOfReturnedDonor ==
    (Returned /\ CantidadesPresentes) =>
        \A t \in Barrios :
            SinSolapamiento(t) => result[t] = RowMul(result[Donante(t)], Half)

\* C24, amended: when every quadrant intersects some barrio, every barrio that pass 2
\* filled is returned with half of the value its donor held when pass 2 started,
\* which is half of the donor's returned value when pass 3 added nothing to the donor
C24_HalfOfDonorBeforePass3 ==
    (Returned /\ \A q \in Cuads : ~CuadAislado(q)) =>
        \A t \in Barrios :
            SinSolapamiento(t) =>
                /\ result[t] = RowMul(hist.p1[Donante(t)], Half)
                /\ hist.p3[Donante(t)] = hist.p1[Donante(t)] =>
                       result[t] = RowMul(result[Donante(t)], Half)

\* C24 witness: a barrio was filled from a donor with emissions, and pass 3 then
\* added a leftover to the donor, which is returned with more than twice the
\* fallback
C24_Witness ==
    /\ Returned /\ CantidadesPresentes
    /\ \A q \in Cuads : ~CuadAislado(q)
    /\ \E t \in Barrios :
           /\ SinSolapamiento(t)
           /\ result[t] = RowMul(hist.p1[Donante(t)], Half)
           /\ Lt(hist.p1[Donante(t)]["CO2_real_kg"], result[Donante(t)]["CO2_real_kg"])

(* Claims about passes 1 and 3 together (checked under Spec). *)
\* what pass 3 adds to each barrio: pass 3 run on an accumulator of zeros with the
\* matrix as get_matriz_cuadrantes built it
Pass3Solo ==
    distribuir_sobrantes([b \in Barrios |-> RowZero], matriz_overlap, gdf_cuad,
                         poligonos_src, poligonos_barrios, Len(poligonos_src))

\* C25: the value after pass 3 of a barrio that intersects a quadrant and whose
\* covered area is below its own area is its base value (the weighted sum of the
\* quantities) times the number area / coveredArea, plus the amounts of pass 3,
\* which are computed from the matrix as built and are not scaled by that factor
C25_Pass3OriginalWeights ==
    (AfterPass3 /\ CantidadesPresentes) =>
        \A b \in Barrios :
            (Intersecta(b) /\ CoveredArea(b) < AreaDe(b)) =>
                /\ CoveredArea(b) > 0
                /\ hist.base[b] = [c \in Cols |-> WeightedSum(matriz_overlap, gdf_cuad, b, c)]
                /\ hist.p3[b] =
                       RowAdd(RowMul(hist.base[b], Rat(AreaDe(b), CoveredArea(b))),
                              Pass3Solo[b])

(* Claims about duplicate ids in the builders (checked under SpecGeo). *)
\* the weight of the pair (s, t) computed from the polygon loaded last under each id
PesoUltimo(s, t) ==
    LET gs == GeomOf(poligonos_src, s)
        gt == GeomOf(poligonos_barrios, t)
    IN  IF intersects(gs, gt) THEN Rat(intersection_area(gs, gt), area(gs)) ELSE Zero

\* C26: the matrix built by get_matriz_cp (porcentaje), get_matriz_cuadrantes or
\* get_matriz_overlap_censales holds, for every pair of ids, the weight computed
\* from the polygon loaded last under each id (of non-zero area, for the weight to
\* exist): an earlier polygon of the same id contributes nothing
C26_DuplicateIdsLastWins ==
    BuiltPorcentaje =>
        \A s \in Ids(poligonos_src) : \A t \in Ids(poligonos_barrios) :
            area(GeomOf(poligonos_src, s)) > 0 =>
                matriz_overlap[<<s, t>>] = PesoUltimo(s, t)

(* Claims about the values of cargar_datos for any geometry (checked under Spec). *)
\* pass 3 splits the leftover of quadrant q over several barrios (lines 153-160)
Reparte(q) ==
    /\ ~NumEq(gdf_cuad[q]["CO2_real_kg"], Zero)
    /\ ~isclose1(RowSum(matriz_overlap, q))
    /\ Cardinality(Solapados(q)) > 1

\* C27: with a number in every input cell, every value returned is a finite number,
\* no value is NaN or infinite after pass 1 or pass 3, pass 1 divides by a positive
\* covered area and pass 3 divides by a positive total shared area, also for
\* barrios and quadrants that only touch
C27_AlwaysFinite ==
    (Returned /\ CantidadesPresentes) =>
        /\ Finitas(result)
        /\ Finitas(hist.p1) /\ Finitas(hist.p3)
        /\ \A b \in Barrios :
               (Intersecta(b) /\ CoveredArea(b) < AreaDe(b)) => CoveredArea(b) > 0
        /\ \A q \in Cuads : Reparte(q) => AreaComunTotal(q, Solapados(q)) > 0

(* cargar_datos on a map whose barrios overlap each other. *)
\* the barrios b1, b2 in index order, each with an area, sharing a part of it
BarriosSolapadosEn(G) ==
    {<<[id |-> "b1", geometry |-> g1], [id |-> "b2", geometry |-> g2]>> :
        <<g1, g2>> \in {p \in Geoms(G) \X Geoms(G) :
                           /\ area(p[1]) > 0 /\ area(p[2]) > 0
                           /\ intersection_area(p[1], p[2]) > 0}}

InitSolapados ==
    /\ pc = "mov"
    /\ poligonos_src \in CuadLayouts
    /\ poligonos_barrios \in BarriosSolapadosEn(GridMov)
    /\ Idle

\* AreaMovilidad.__init__ and one call of cargar_datos, step by step, on such a map
SpecSolapados == InitSolapados /\ [][Next]_vars

NoNegativas(acc) == \A b \in DOMAIN acc : \A c \in Cols : Le(Zero, acc[b][c])

\* C28: with a non-negative number in every input cell, every value of every barrio
\* is non-negative after the base loop, after pass 1, after pass 2 and after pass 3,
\* also on a map whose barrios overlap (row sums above 1)
C28_NonNegative ==
    (AfterBase /\ CantidadesPresentes) =>
        /\ NoNegativas(hist.base)
        /\ AfterPass1 => NoNegativas(hist.p1)
        /\ AfterPass2 => NoNegativas(hist.p2)
        /\ AfterPass3 => NoNegativas(hist.p3)

(* cargar_datos on a map where several barrios intersect no quadrant. *)
GridRelleno == GridMov + 1

\* the barrios of map m that intersect no quadrant of map c
SinCuadrante(c, m) == {i \in DOMAIN m : ~any_intersects(c, m[i].geometry)}

InitRelleno ==
    /\ pc = "mov"
    /\ poligonos_src \in CuadLayoutsEn(GridRelleno)
    /\ poligonos_barrios \in BarrioLayoutsEn(GridRelleno)
    /\ Cardinality(SinCuadrante(poligonos_src, poligonos_barrios)) >= 2
    /\ Idle

\* AreaMovilidad.__init__ and one call of cargar_datos, step by step, on such a map
SpecRelleno == InitRelleno /\ [][Next]_vars

\* C29: the donors of pass 2 are the barrios with positive CO2_real_kg when pass 2
\* starts; every barrio that pass 2 fills takes half of the value its donor held at
\* that point, its donor is not a barrio that pass 2 fills, and every other barrio
\* keeps its value: the values after pass 2 are a function of the values before
\* it, whatever the order in which the barrios are visited
C29_FallbackNeverChains ==
    AfterPass2 =>
        \A t \in Barrios :
            IF SinSolapamiento(t)
            THEN /\ Donante(t) \in Barrios
                 /\ Lt(Zero, hist.p1[Donante(t)]["CO2_real_kg"])
                 /\ ~SinSolapamiento(Donante(t))
                 /\ hist.p2[Donante(t)] = hist.p1[Donante(t)]
                 /\ hist.p2[t] = RowMul(hist.p1[Donante(t)], Half)
            ELSE hist.p2[t] = hist.p1[t]

\* C29 witness: pass 2 filled two barrios from the same donor, and one of them lies
\* nearer to the other, which was filled before it, than to the donor
C29_Witness ==
    /\ AfterPass2
    /\ \E t \in Barrios : \E u \in Barrios \ {t} :
           /\ SinSolapamiento(t) /\ SinSolapamiento(u)
           /\ Donante(t) = Donante(u)
           /\ Lt(Zero, hist.p2[t]["CO2_real_kg"])
           /\ hist.p2[u] = hist.p2[t]
           /\ Dist2(t, u) < Dist2(Donante(u), u)

(* Claims about the totals of _get_consumos_electricos (checked under SpecEnergia). *)
\* the postal codes of the matrix
CPs == Ids(poligonos_src)

\* the sum of column c of consumos_electricos over the barrios
TotalBarrios(c) ==
    SumSet([b \in Ids(poligonos_barrios) |-> consumos_electricos[b][c]],
           Ids(poligonos_barrios))

\* the sum of column c of the cleaned table over the postal codes of the matrix
TotalCP(c) == SumSet([cp \in CPs |-> LimpiarConsumos(consumos_cp)[cp][c]], CPs)

\* the sum over the postal codes of the part x(cp) of their consumption in column c
TotalParte(x, c) ==
    SumSet([cp \in CPs |-> Mul(x[cp], LimpiarConsumos(consumos_cp)[cp][c])], CPs)

\* C30: in every column the total of consumos_electricos over the barrios is the sum
\* over the postal codes of rowSum(cp) * consumos_cp[cp]; when every row sum is at
\* most 1 the total does not exceed the total of the postal codes, and the
\* difference is the sum of (1 - rowSum(cp)) * consumos_cp[cp], the part of each
\* postal code that lies outside every barrio
C30_NoCoverageCorrection ==
    pc = "consumos" =>
        \A c \in ConsumoCols :
            /\ TotalBarrios(c) = TotalParte([cp \in CPs |-> RowSum(matriz_overlap, cp)], c)
            /\ (\A cp \in CPs : Le(RowSum(matriz_overlap, cp), One)) =>
                   /\ Le(TotalBarrios(c), TotalCP(c))
                   /\ Sub(TotalCP(c), TotalBarrios(c)) =
                          TotalParte([cp \in CPs |-> Sub(One, RowSum(matriz_overlap, cp))], c)

\* C30 witness: a postal code with consumption lies partly inside a barrio and
\* partly outside every barrio, and the barrios receive less than the postal codes
\* consumed
C30_Witness ==
    /\ pc = "consumos"
    /\ \E cp \in CPs :
           /\ Lt(Zero, RowSum(matriz_overlap, cp))
           /\ Lt(RowSum(matriz_overlap, cp), One)
           /\ Lt(Zero, LimpiarConsumos(consumos_cp)[cp]["Total"])
    /\ Lt(Zero, TotalBarrios("Total"))
    /\ Lt(TotalBarrios("Total"), TotalCP("Total"))

=============================================================================
